---- MODULE Spec2Model ----
(***************************************************************************)
(* Safe-Insert: the Store (ledger, accounts, recurring rules), its         *)
(* persistence in localStorage, the recurrence materializer and the        *)
(* derived account metrics, as a state machine.                            *)
(*                                                                         *)
(* Dates.  Every date the program keeps is an ISO string of an instant;    *)
(* every use of it goes through new Date(str) and the local getters        *)
(* getFullYear/getMonth/getDate.  The model keeps the local calendar date  *)
(* [y, m, d] with m in 0..11 as getMonth returns it.  The hour of the day  *)
(* is not kept with a transaction.  The bounds of the report are the one   *)
(* place where dates are written as 'YYYY-MM-DD' strings and read back in  *)
(* UTC; there instants are counted in hours and the zone is a variable.    *)
(* Amounts are integers; 0 stands for every falsy parseFloat result        *)
(* (0 and NaN), which the handlers reject with the same test (!amount).    *)
(* Identifiers from crypto.randomUUID() are the successive values of the   *)
(* counter uuid; NoId stands for an absent (undefined) reference.          *)
(***************************************************************************)
EXTENDS Integers, Sequences, FiniteSets, TLC

VARIABLES
    data,          \* Store.data
    localStorage,  \* the five st_* keys of window.localStorage
    uuid,          \* next value crypto.randomUUID() returns
    now,           \* the calendar date new Date() returns
    nowHour,       \* the local hour of the day new Date() returns
    utcOffset,     \* local time minus UTC of the browser's time zone, in hours
    reloading,     \* window.location.reload() was called, page not yet reloaded
    lastOp,        \* history: the handler that ran last, its argument, its outcome
    matCount,      \* history: <<ruleId, year, month>> -> times materialized
    deleted,       \* history: rule ids removed by deleteRecurring, not restored since
    uncaught       \* history: the error the last handler threw, '' when it returned

vars == <<data, localStorage, uuid, now, nowHour, utcOffset, reloading, lastOp,
          matCount, deleted, uncaught>>

----------------------------------------------------------------------------
(* Bounds *)

MaxUuid == 5       \* identifiers handed out in one behaviour
MonthSpan == 1     \* months the household view may move away from now
DaySpan == 1       \* days the work view may move away from now
MaxAccounts == 2   \* accounts in the store

----------------------------------------------------------------------------
(* Identifiers *)

NoId == 0          \* undefined
CashId == 1        \* 'cash-1'
FirstUuid == 2
BlobRuleId == 100  \* id of the rule carried by the backup file

----------------------------------------------------------------------------
(* Date: local calendar arithmetic of the JavaScript Date object *)

IsLeap(y) == (y % 4 = 0 /\ y % 100 # 0) \/ y % 400 = 0

DaysInMonth(y, m) ==
    IF m = 1 THEN (IF IsLeap(y) THEN 29 ELSE 28)
    ELSE IF m \in {3, 5, 8, 10} THEN 30 ELSE 31

RECURSIVE MakeDate(_, _, _)
\* new Date(y, m, d, ...): months and days outside their range carry over
MakeDate(y, m, d) ==
    LET yy == y + (m \div 12)
        mm == m % 12
    IN  IF d > DaysInMonth(yy, mm) THEN MakeDate(yy, mm + 1, d - DaysInMonth(yy, mm))
        ELSE IF d < 1 THEN
            LET py == yy + ((mm - 1) \div 12)
                pm == (mm - 1) % 12
            IN  MakeDate(py, pm, d + DaysInMonth(py, pm))
        ELSE [y |-> yy, m |-> mm, d |-> d]

setDate(date, d) == MakeDate(date.y, date.m, d)
setMonth(date, m) == MakeDate(date.y, m, date.d)

MonthIndex(date) == date.y * 12 + date.m

isSameDay(d1, d2) == d1.y = d2.y /\ d1.m = d2.m /\ d1.d = d2.d
isSameMonth(d1, d2) == d1.m = d2.m /\ d1.y = d2.y

(* Instants: a Date object holds a time in UTC, here in hours since          *)
(* 1970-01-01T00:00Z; its local getters and setters add the zone's offset.   *)
(* A 'YYYY-MM-DD' string is the record [y, m, d] of the date it names.       *)

\* days from 1970-01-01 to the first of January of year y
daysBeforeYear(y) ==
    365 * (y - 1970) + ((y - 1969) \div 4) - ((y - 1901) \div 100)
        + ((y - 1601) \div 400)

RECURSIVE daysBeforeMonth(_, _)
daysBeforeMonth(y, m) ==
    IF m = 0 THEN 0 ELSE DaysInMonth(y, m - 1) + daysBeforeMonth(y, m - 1)

\* days from 1970-01-01 to a calendar date, and back
dayNumber(date) == daysBeforeYear(date.y) + daysBeforeMonth(date.y, date.m) + date.d - 1

dateOfDay(n) ==
    LET y == 1970 + (n \div 366)
    IN  MakeDate(y, 0, 1 + n - daysBeforeYear(y))

\* new Date(y, m, d, h): the instant of a local date and hour
localInstant(date, h) == dayNumber(date) * 24 + h - utcOffset

\* getFullYear / getMonth / getDate of an instant
getLocalDate(t) == dateOfDay((t + utcOffset) \div 24)

\* new Date('YYYY-MM-DD'): a date-only string is midnight UTC
parseDateString(str) == dayNumber(str) * 24

\* toISOString().split('T')[0]: the UTC date of an instant
toISODateString(t) == dateOfDay(t \div 24)

\* setHours(h, ...): the same local day at another hour
setHours(t, h) == localInstant(getLocalDate(t), h)

\* start at 00:00:00.000 and end at 23:59:59.999 of their local days; at
\* the grain of one hour the last instant of a day is its hour 23
isWithinRange(d, startStr, endStr) ==
    LET start == setHours(parseDateString(startStr), 0)
        end == setHours(parseDateString(endStr), 23)
    IN  d >= start /\ d <= end

----------------------------------------------------------------------------
(* JSON: what is written to a localStorage key and read back *)

NullItem == [present |-> FALSE, json |-> <<>>]
JSONstringify(v) == [present |-> TRUE, json |-> v]
JSONparse(item) == item.json

\* the value of a property the object does not have, in the place of a
\* list of rules: JSON.stringify(undefined) is undefined, setItem stores the
\* text 'undefined', and JSON.parse of that text throws a SyntaxError
undefined ==
    << [id |-> 0 - 1, category |-> "undefined", amount |-> 0, day |-> 0,
        type |-> "undefined", active |-> FALSE] >>

EmptyStorage ==
    [st_transactions |-> NullItem, st_customCategories |-> NullItem,
     st_homeCategories |-> NullItem, st_accounts |-> NullItem,
     st_recurring |-> NullItem]

----------------------------------------------------------------------------
(* Store *)

DefaultCustomCategories == <<"Transporte", "Alimentacao", "Hospedagem">>
DefaultHomeCategories == <<"Agua", "Luz", "Internet", "Aluguel", "Cartao de Credito">>
DefaultAccounts ==
    << [id |-> CashId, type |-> "cash", initialBalance |-> 0] >>

\* the string '' in a field that holds a 'YYYY-MM-DD' string
EmptyString == [y |-> 0, m |-> 0, d |-> 0]

\* Store.data as the object literal builds it when the script is loaded
StoreData(today) ==
    [transactions |-> <<>>,
     customCategories |-> DefaultCustomCategories,
     homeCategories |-> DefaultHomeCategories,
     selectedDate |-> today,
     selectedMonth |-> today,
     reportFilter |-> "monthly",
     reportStartDate |-> EmptyString,
     reportEndDate |-> EmptyString,
     accounts |-> <<>>,
     recurring |-> <<>>]

\* a transaction object; fields a creator leaves out are undefined (NoId, FALSE)
Transaction(type, amount, category, date, isHomeExpense) ==
    [id |-> NoId, type |-> type, amount |-> amount, category |-> category,
     date |-> date, isHomeExpense |-> isHomeExpense, isPaid |-> FALSE,
     accountId |-> NoId, recurringId |-> NoId, installmentId |-> NoId,
     isReminder |-> FALSE]

save(s) ==
    [s EXCEPT !.localStorage =
        [st_transactions |-> JSONstringify(s.data.transactions),
         st_customCategories |-> JSONstringify(s.data.customCategories),
         st_homeCategories |-> JSONstringify(s.data.homeCategories),
         st_accounts |-> JSONstringify(s.data.accounts),
         st_recurring |-> JSONstringify(s.data.recurring)]]

\* the existence test with the id of the transaction in place of recurringId
existsFor_byId(transactions, rule, month, year) ==
    \E i \in 1..Len(transactions) :
        /\ transactions[i].id = rule.id
        /\ transactions[i].date.m = month
        /\ transactions[i].date.y = year

\* the existence test of ensureRecurringForMonth
existsFor(transactions, rule, month, year) ==
    \E i \in 1..Len(transactions) :
        /\ transactions[i].recurringId = rule.id
        /\ transactions[i].date.m = month
        /\ transactions[i].date.y = year

\* the date without the check for a day the month does not have
recurringDate_noClamp(year, month, day) == MakeDate(year, month, day)

\* the date with setDate(1) in place of setDate(0)
recurringDate_first(year, month, day) ==
    LET newDate == MakeDate(year, month, day)
    IN  IF newDate.m # month THEN setDate(newDate, 1) ELSE newDate

\* the date ensureRecurringForMonth gives the new transaction
recurringDate(year, month, day) ==
    LET newDate == MakeDate(year, month, day)
    IN  IF newDate.m # month THEN setDate(newDate, 0) ELSE newDate

\* the object pushed without the distinction of reminder rules
recurringTransaction_noReminder(rule, year, month, id) ==
    [id |-> id, type |-> "expense", amount |-> rule.amount,
     category |-> rule.category,
     date |-> recurringDate(year, month, IF rule.day = 0 THEN 10 ELSE rule.day),
     isHomeExpense |-> TRUE, isPaid |-> FALSE,
     accountId |-> NoId, recurringId |-> rule.id, installmentId |-> NoId,
     isReminder |-> FALSE]

\* the object ensureRecurringForMonth pushes for a rule
recurringTransaction(rule, year, month, id) ==
    LET isReminder == rule.type = "reminder"
    IN  [id |-> id, type |-> "expense",
         amount |-> IF isReminder THEN 0 ELSE rule.amount,
         category |-> rule.category,
         date |-> recurringDate(year, month, IF rule.day = 0 THEN 10 ELSE rule.day),
         isHomeExpense |-> TRUE, isPaid |-> FALSE,
         accountId |-> NoId, recurringId |-> rule.id, installmentId |-> NoId,
         isReminder |-> isReminder]

RECURSIVE forEachRule_ignoresActive(_, _, _, _)
\* the forEach without if (!rule.active) return
forEachRule_ignoresActive(s, k, month, year) ==
    IF k > Len(s.data.recurring) THEN s
    ELSE LET rule == s.data.recurring[k]
         IN  IF existsFor(s.data.transactions, rule, month, year)
             THEN forEachRule_ignoresActive(s, k + 1, month, year)
             ELSE forEachRule_ignoresActive(
                    [s EXCEPT !.data.transactions =
                                  Append(@, recurringTransaction(rule, year, month, s.uuid)),
                              !.uuid = @ + 1],
                    k + 1, month, year)

RECURSIVE forEachRule(_, _, _, _)
\* the body of this.data.recurring.forEach, from rule k on
forEachRule(s, k, month, year) ==
    IF k > Len(s.data.recurring) THEN s
    ELSE LET rule == s.data.recurring[k]
         IN  IF ~rule.active THEN forEachRule(s, k + 1, month, year)
             ELSE IF existsFor(s.data.transactions, rule, month, year)
                  THEN forEachRule(s, k + 1, month, year)
             ELSE forEachRule(
                    [s EXCEPT !.data.transactions =
                                  Append(@, recurringTransaction(rule, year, month, s.uuid)),
                              !.uuid = @ + 1],
                    k + 1, month, year)

\* undefined.forEach throws a TypeError ahead of any change
ensureRecurringForMonth(s, monthDate) ==
    IF s.data.recurring = undefined THEN s
    ELSE save(forEachRule(s, 1, monthDate.m, monthDate.y))

\* init as the earlier version has it, without the read of st_recurring
init_withoutRules(s) ==
    LET ls == s.localStorage
        d1 == [s.data EXCEPT
                 !.transactions = IF ls.st_transactions.present
                                  THEN JSONparse(ls.st_transactions) ELSE @,
                 !.customCategories = IF ls.st_customCategories.present
                                      THEN JSONparse(ls.st_customCategories) ELSE @,
                 !.homeCategories = IF ls.st_homeCategories.present
                                    THEN JSONparse(ls.st_homeCategories) ELSE @]
        s1 == IF ls.st_accounts.present
              THEN [s EXCEPT !.data = [d1 EXCEPT !.accounts = JSONparse(ls.st_accounts)]]
              ELSE save([s EXCEPT !.data = [d1 EXCEPT !.accounts = DefaultAccounts]])
        firstDay == localInstant(MakeDate(now.y, now.m, 1), 0)
        lastDay == localInstant(MakeDate(now.y, now.m + 1, 0), 0)
        s2 == [s1 EXCEPT !.data.reportStartDate = toISODateString(firstDay),
                         !.data.reportEndDate = toISODateString(lastDay)]
    IN  ensureRecurringForMonth(s2, s2.data.selectedMonth)

init(s) ==
    LET ls == s.localStorage
        d1 == [s.data EXCEPT
                 !.transactions = IF ls.st_transactions.present
                                  THEN JSONparse(ls.st_transactions) ELSE @,
                 !.customCategories = IF ls.st_customCategories.present
                                      THEN JSONparse(ls.st_customCategories) ELSE @,
                 !.homeCategories = IF ls.st_homeCategories.present
                                    THEN JSONparse(ls.st_homeCategories) ELSE @,
                 !.recurring = IF ls.st_recurring.present
                                  /\ ls.st_recurring.json # undefined
                               THEN JSONparse(ls.st_recurring) ELSE @]
        s1 == IF ls.st_accounts.present
              THEN [s EXCEPT !.data = [d1 EXCEPT !.accounts = JSONparse(ls.st_accounts)]]
              ELSE save([s EXCEPT !.data = [d1 EXCEPT !.accounts = DefaultAccounts]])
        firstDay == localInstant(MakeDate(now.y, now.m, 1), 0)
        lastDay == localInstant(MakeDate(now.y, now.m + 1, 0), 0)
        s2 == [s1 EXCEPT !.data.reportStartDate = toISODateString(firstDay),
                         !.data.reportEndDate = toISODateString(lastDay)]
    IN  IF ls.st_recurring.present /\ ls.st_recurring.json = undefined
        THEN [s EXCEPT !.data = d1]
        ELSE ensureRecurringForMonth(s2, s2.data.selectedMonth)

\* addRecurring up to its this.save(): the store that save() hands to
\* router.renderResults() before the rule is materialized
addRecurring_saved(s, item) ==
    IF s.data.recurring = undefined THEN [s EXCEPT !.uuid = @ + 1]
    ELSE save([s EXCEPT
                 !.data.recurring = Append(@, [item EXCEPT !.id = s.uuid,
                                                           !.active = TRUE]),
                 !.uuid = @ + 1])

addRecurring(s, item) ==
    LET s1 == addRecurring_saved(s, item)
    IN  ensureRecurringForMonth(s1, s1.data.selectedMonth)

\* deleteRecurring without this.save()
deleteRecurring_unsaved(s, id) ==
    LET keep(r) == r.id # id
    IN  [s EXCEPT !.data.recurring = SelectSeq(@, keep)]

deleteRecurring(s, id) ==
    LET keep(r) == r.id # id
    IN  IF s.data.recurring = undefined THEN s
        ELSE save([s EXCEPT !.data.recurring = SelectSeq(@, keep)])

addTransaction(s, t) ==
    save([s EXCEPT !.data.transactions = Append(@, [t EXCEPT !.id = s.uuid]),
                   !.uuid = @ + 1])

\* index of the first element with this id, 0 when there is none (findIndex)
RECURSIVE findIndexFrom(_, _, _)
findIndexFrom(seq, id, k) ==
    IF k > Len(seq) THEN 0
    ELSE IF seq[k].id = id THEN k ELSE findIndexFrom(seq, id, k + 1)

findIndex(seq, id) == findIndexFrom(seq, id, 1)

\* updateTransaction with the updates in place of the merged object
updateTransaction_replaces(s, id, updates) ==
    LET index == findIndex(s.data.transactions, id)
        old == s.data.transactions[index]
        blank == Transaction("", 0, "", old.date, FALSE)
        merged == [f \in DOMAIN old |->
                      IF f \in DOMAIN updates THEN updates[f] ELSE blank[f]]
    IN  IF index # 0
        THEN save([s EXCEPT !.data.transactions[index] = merged])
        ELSE s

\* updateTransaction without this.save()
updateTransaction_unsaved(s, id, updates) ==
    LET index == findIndex(s.data.transactions, id)
        old == s.data.transactions[index]
        merged == [f \in DOMAIN old |->
                      IF f \in DOMAIN updates THEN updates[f] ELSE old[f]]
    IN  IF index # 0
        THEN [s EXCEPT !.data.transactions[index] = merged]
        ELSE s

\* updates is a function from the field names it carries to their values
updateTransaction(s, id, updates) ==
    LET index == findIndex(s.data.transactions, id)
        old == s.data.transactions[index]
        merged == [f \in DOMAIN old |->
                      IF f \in DOMAIN updates THEN updates[f] ELSE old[f]]
    IN  IF index # 0
        THEN save([s EXCEPT !.data.transactions[index] = merged])
        ELSE s

includes(seq, name) == \E i \in 1..Len(seq) : seq[i] = name

\* addCustomCategory without the test of includes
addCustomCategory_always(s, name) ==
    save([s EXCEPT !.data.customCategories = Append(@, name)])

addCustomCategory(s, name) ==
    IF ~includes(s.data.customCategories, name)
    THEN save([s EXCEPT !.data.customCategories = Append(@, name)])
    ELSE s

addAccount(s, account) ==
    save([s EXCEPT !.data.accounts = Append(@, [account EXCEPT !.id = s.uuid]),
                   !.uuid = @ + 1])

updateAccount(s, id, updates) ==
    LET idx == findIndex(s.data.accounts, id)
        old == s.data.accounts[idx]
        merged == [f \in DOMAIN old |->
                      IF f \in DOMAIN updates THEN updates[f] ELSE old[f]]
    IN  IF idx # 0
        THEN save([s EXCEPT !.data.accounts[idx] = merged])
        ELSE s

\* deleteAccount that also drops the transactions of the account
deleteAccount_cascade(s, id) ==
    LET keep(a) == a.id # id
        keepT(t) == t.accountId # id
    IN  save([s EXCEPT !.data.accounts = SelectSeq(@, keep),
                       !.data.transactions = SelectSeq(@, keepT)])

deleteAccount(s, id) ==
    LET keep(a) == a.id # id
    IN  save([s EXCEPT !.data.accounts = SelectSeq(@, keep)])

----------------------------------------------------------------------------
(* Derived metrics *)

RECURSIVE sumAmounts(_, _)
\* filtered.reduce((acc, t) => acc + t.amount, 0), from k on
sumAmounts(filtered, k) ==
    IF k > Len(filtered) THEN 0
    ELSE filtered[k].amount + sumAmounts(filtered, k + 1)

limitSafeYear == 81000
limitMaxYear == 97200
limitSafeMonth == 6750
limitMaxMonth == 8100

\* the value null of the two status functions
NullStatus ==
    [isNull |-> TRUE, total |-> 0, limitSafe |-> 0, limitMax |-> 0, status |-> "null"]

statusOf(total, limitSafe, limitMax) ==
    IF total > limitMax THEN "critical"
    ELSE IF total > limitSafe THEN "warning"
    ELSE "safe"

\* the annual status without the test of the year
getAccountLimitStatus_allYears(d, accountId, today) ==
    LET idx == findIndex(d.accounts, accountId)
        account == d.accounts[idx]
        ofAccount(t) == t.accountId = accountId /\ t.type = "income"
        total == account.initialBalance + sumAmounts(SelectSeq(d.transactions, ofAccount), 1)
    IN  IF idx = 0 \/ account.type # "mei" THEN NullStatus
        ELSE [isNull |-> FALSE, total |-> total,
              limitSafe |-> limitSafeYear, limitMax |-> limitMaxYear,
              status |-> statusOf(total, limitSafeYear, limitMaxYear)]

getAccountLimitStatus(d, accountId, today) ==
    LET idx == findIndex(d.accounts, accountId)
        account == d.accounts[idx]
        inYear(t) == /\ t.accountId = accountId
                     /\ t.type = "income"
                     /\ t.date.y = today.y
        yearIncome == sumAmounts(SelectSeq(d.transactions, inYear), 1)
        total == account.initialBalance + yearIncome
    IN  IF idx = 0 \/ account.type # "mei" THEN NullStatus
        ELSE [isNull |-> FALSE, total |-> total,
              limitSafe |-> limitSafeYear, limitMax |-> limitMaxYear,
              status |-> statusOf(total, limitSafeYear, limitMaxYear)]

\* the monthly status without the test of the month
getAccountMonthlyStatus_wholeYear(d, accountId, today) ==
    LET idx == findIndex(d.accounts, accountId)
        account == d.accounts[idx]
        inYear(t) == /\ t.accountId = accountId
                     /\ t.type = "income"
                     /\ t.date.y = today.y
        monthIncome == sumAmounts(SelectSeq(d.transactions, inYear), 1)
    IN  IF idx = 0 \/ account.type # "mei" THEN NullStatus
        ELSE [isNull |-> FALSE, total |-> monthIncome,
              limitSafe |-> limitSafeMonth, limitMax |-> limitMaxMonth,
              status |-> statusOf(monthIncome, limitSafeMonth, limitMaxMonth)]

getAccountMonthlyStatus(d, accountId, today) ==
    LET idx == findIndex(d.accounts, accountId)
        account == d.accounts[idx]
        inMonth(t) == /\ t.accountId = accountId
                      /\ t.type = "income"
                      /\ t.date.m = today.m
                      /\ t.date.y = today.y
        monthIncome == sumAmounts(SelectSeq(d.transactions, inMonth), 1)
    IN  IF idx = 0 \/ account.type # "mei" THEN NullStatus
        ELSE [isNull |-> FALSE, total |-> monthIncome,
              limitSafe |-> limitSafeMonth, limitMax |-> limitMaxMonth,
              status |-> statusOf(monthIncome, limitSafeMonth, limitMaxMonth)]

\* the balance with the expenses of every account
getAccountBalance_anyExpense(d, accountId) ==
    LET idx == findIndex(d.accounts, accountId)
        account == d.accounts[idx]
        isIncome(t) == t.accountId = accountId /\ t.type = "income"
        isExpense(t) == t.type = "expense"
        income == sumAmounts(SelectSeq(d.transactions, isIncome), 1)
        expenses == sumAmounts(SelectSeq(d.transactions, isExpense), 1)
    IN  IF idx = 0 THEN 0
        ELSE account.initialBalance + income - expenses

getAccountBalance(d, accountId) ==
    LET idx == findIndex(d.accounts, accountId)
        account == d.accounts[idx]
        isIncome(t) == t.accountId = accountId /\ t.type = "income"
        isExpense(t) == t.accountId = accountId /\ t.type = "expense"
        income == sumAmounts(SelectSeq(d.transactions, isIncome), 1)
        expenses == sumAmounts(SelectSeq(d.transactions, isExpense), 1)
    IN  IF idx = 0 THEN 0
        ELSE account.initialBalance + income - expenses

(* groupByCat.  The accumulator is the object literal {}: reading a name it *)
(* does not own yields what Object.prototype holds under that name.  An     *)
(* entry keeps its name, its value and whether the value is a number (a     *)
(* function plus a number is a string).                                     *)

\* names an object literal inherits
ObjectPrototype ==
    {"constructor", "toString", "toLocaleString", "valueOf", "hasOwnProperty",
     "isPrototypeOf", "propertyIsEnumerable", "__proto__"}

RECURSIVE ownIndexFrom(_, _, _)
ownIndexFrom(map, name, k) ==
    IF k > Len(map) THEN 0
    ELSE IF map[k].name = name THEN k
    ELSE ownIndexFrom(map, name, k + 1)

\* one turn of list.forEach: map[cat] += t.amount
addToMap(map, t) ==
    LET cat == IF t.category = "" THEN "Outros" ELSE t.category
        i == ownIndexFrom(map, cat, 1)
    IN  IF i > 0
        THEN (IF map[i].isNumber THEN [map EXCEPT ![i].val = @ + t.amount] ELSE map)
        ELSE IF cat = "__proto__" THEN map
        ELSE IF cat \in ObjectPrototype
        THEN Append(map, [name |-> cat, val |-> 0, isNumber |-> FALSE])
        ELSE Append(map, [name |-> cat, val |-> t.amount, isNumber |-> TRUE])

RECURSIVE forEachOf(_, _, _)
forEachOf(list, k, map) ==
    IF k > Len(list) THEN map
    ELSE forEachOf(list, k + 1, addToMap(map, list[k]))

\* (a, b) => b[1] - a[1] is positive: b goes before a; NaN counts as 0
goesBefore(b, a) == a.isNumber /\ b.isNumber /\ b.val > a.val

RECURSIVE insertSorted(_, _, _)
insertSorted(sorted, e, k) ==
    IF k > Len(sorted) THEN Append(sorted, e)
    ELSE IF goesBefore(e, sorted[k])
    THEN SubSeq(sorted, 1, k - 1) \o <<e>> \o SubSeq(sorted, k, Len(sorted))
    ELSE insertSorted(sorted, e, k + 1)

RECURSIVE sortBigToSmall(_, _, _)
sortBigToSmall(entries, k, sorted) ==
    IF k > Len(entries) THEN sorted
    ELSE sortBigToSmall(entries, k + 1, insertSorted(sorted, entries[k], 1))

\* val / total * 100 as the fraction n / d; NaN when val is not a number
percentOf(e, total) ==
    IF total > 0
    THEN [isNaN |-> ~e.isNumber, n |-> e.val * 100, d |-> total]
    ELSE [isNaN |-> FALSE, n |-> 0, d |-> 1]

groupByCat(list) ==
    LET map == forEachOf(list, 1, <<>>)
        total == sumAmounts(list, 1)
        sorted == sortBigToSmall(map, 1, <<>>)
    IN  [k \in 1..Len(sorted) |->
            [name |-> sorted[k].name, val |-> sorted[k].val,
             isNumber |-> sorted[k].isNumber,
             percent |-> percentOf(sorted[k], total)]]

\* the groups Views.reports charts
workExpenses(d) ==
    LET isWorkExpense(t) == ~t.isHomeExpense /\ t.type = "expense"
    IN  SelectSeq(d.transactions, isWorkExpense)

homeTransactions(d) ==
    LET isHome(t) == t.isHomeExpense
    IN  SelectSeq(d.transactions, isHome)

----------------------------------------------------------------------------
(* Backup and reset *)

\* the backup file of another session: one active rule that is not yet
\* materialized, the household view one month after today
BackupData(today) ==
    [transactions |-> <<>>,
     customCategories |-> DefaultCustomCategories,
     homeCategories |-> DefaultHomeCategories,
     selectedDate |-> today,
     selectedMonth |-> MakeDate(today.y, today.m + 1, 15),
     reportFilter |-> "monthly",
     reportStartDate |-> MakeDate(today.y, today.m, 1),
     reportEndDate |-> MakeDate(today.y, today.m + 1, 0),
     accounts |-> DefaultAccounts,
     recurring |-> << [id |-> BlobRuleId, category |-> "Luz", amount |-> 150,
                       day |-> 30, type |-> "fixed", active |-> TRUE] >>]

\* the files a user may pick: text that is not JSON, JSON without one of the
\* required collections, a backup
Blobs(today) ==
    { [parses |-> FALSE, hasTransactions |-> FALSE, hasAccounts |-> FALSE,
       data |-> BackupData(today)],
      [parses |-> TRUE, hasTransactions |-> TRUE, hasAccounts |-> FALSE,
       data |-> BackupData(today)],
      [parses |-> TRUE, hasTransactions |-> FALSE, hasAccounts |-> TRUE,
       data |-> BackupData(today)],
      [parses |-> TRUE, hasTransactions |-> TRUE, hasAccounts |-> TRUE,
       data |-> BackupData(today)] }

\* the value loadBackupData returns
loadBackupOk(blob) == blob.parses /\ blob.hasTransactions /\ blob.hasAccounts

getBackupData(s) == JSONstringify(s.data)

\* this.data = data ahead of the test of the two collections
loadBackupData_assignFirst(s, blob) ==
    IF loadBackupOk(blob) THEN save([s EXCEPT !.data = blob.data])
    ELSE IF blob.parses THEN [s EXCEPT !.data = blob.data]
    ELSE s

\* Object.assign of the two required collections in place of this.data = data
loadBackupData_assignTwo(s, blob) ==
    IF loadBackupOk(blob)
    THEN save([s EXCEPT !.data.transactions = blob.data.transactions,
                        !.data.accounts = blob.data.accounts])
    ELSE s

loadBackupData(s, blob) ==
    IF loadBackupOk(blob) THEN save([s EXCEPT !.data = blob.data]) ELSE s

\* clearAllData up to the call of window.location.reload()
clearAllData(s) ==
    LET cleared == [s EXCEPT
                      !.data.transactions = <<>>,
                      !.data.accounts = <<>>,
                      !.data.customCategories = DefaultCustomCategories,
                      !.data.homeCategories = DefaultHomeCategories,
                      !.localStorage = EmptyStorage]
        s1 == init(cleared)
    IN  IF s1.data.recurring = undefined THEN s1 ELSE save(s1)

----------------------------------------------------------------------------
(* Inputs *)

\* the dates new Date() returns in a behaviour: a 31st, so that month
\* arithmetic overflows, before a February of 28 days; a 1st of January of
\* a leap year, so that the day before is in another year
Clock == { [y |-> 2023, m |-> 0, d |-> 31], [y |-> 2024, m |-> 0, d |-> 1] }

HomeAmounts == {0, 150}          \* parseFloat of inp-home-amount
ReminderAmounts == {0, 90}       \* parseFloat of inp-update-amount
RecurDays == {30}            \* inp-recur-day, inp-remind-day (min 1, max 31)
InstallQtys == {2}               \* inp-install-qty (min 2)
HomeCats == {"Luz"}              \* inp-home-cat, an option of homeCategories
InitialBalances == {0, 80000}                 \* inp-acc-initial
IncomeAmounts == {0, 2000}                    \* parseFloat of inp-amount
ExpenseAmounts == {0, 500}                    \* parseFloat of inp-exp-amount
NewCats == {"", "Frete"}                      \* inp-new-cat

\* balances and incomes that put the totals on both sides of each limit:
\* 74250 + 6750 = 81000, 89100 + 8100 = 97200, 80000 + 2000 = 82000
LimitBalances == {0, 80000, 74250, 89100}
LimitIncomes == {1, 2000, 6750, 8100}

\* first days of months from which one step of the household view reaches
\* every month of a common year and the February of a leap year
Calendar == { [y |-> 2023, m |-> mm, d |-> 1] : mm \in {1, 4, 7, 10} }
            \cup { [y |-> 2024, m |-> 1, d |-> 1] }
AllDays == 1..31                 \* every value inp-recur-day accepts

\* zones west of UTC, of UTC and east of it; an hour of the day before
\* and after the change of the UTC date in each of them
UtcOffsets == {-3, 0, 9}
Hours == {1, 12, 22}
\* a Wednesday at the end of a month, a Sunday at the end of a year
ReportClock == { [y |-> 2024, m |-> 0, d |-> 31], [y |-> 2023, m |-> 11, d |-> 31] }
\* parseFloat of a number input: below zero, zero or not a number, above zero
TypedAmounts == {-50, 0, 90}

\* an amount every number of installments tried divides
InstallAmounts == {1200}
\* a 31st of December, so that the day is replaced and the year rolls over;
\* a 28th; a day in the middle of a month
InstallClock == { [y |-> 2023, m |-> 11, d |-> 31], [y |-> 2024, m |-> 0, d |-> 28],
                  [y |-> 2023, m |-> 9, d |-> 15] }

\* the updates togglePaid and updateReminder pass to updateTransaction
FrameUpdates ==
    { [isPaid |-> TRUE],
      [amount |-> 90, isReminder |-> FALSE, isPaid |-> FALSE] }
\* category names: two new ones and one the vocabulary starts with
FrameCats == {"Frete", "Pedagio", "Transporte"}

\* names typed into inp-new-cat
TypedCats == {"", "Frete", "constructor"}
CategoryAmounts == {0, 500, 300}     \* parseFloat of inp-exp-amount

\* values of the two date inputs of the custom filter
ReportDates == { [y |-> 2024, m |-> 0, d |-> 1], [y |-> 2024, m |-> 1, d |-> 29] }

----------------------------------------------------------------------------
(* State machine *)

State == [data |-> data, localStorage |-> localStorage, uuid |-> uuid]

Op(name, id, ok) == [op |-> name, id |-> id, ok |-> ok]

Range(seq) == { seq[i] : i \in 1..Len(seq) }

RuleIds(d) == { r.id : r \in Range(d.recurring) }

\* the <<rule, year, month>> pairs of the transactions the materializer
\* pushed between state s and state s2
Materialized(s, s2) ==
    { <<t.recurringId, t.date.y, t.date.m>> :
        t \in { x \in Range(s2.data.transactions) :
                    x.id >= s.uuid /\ x.id < s2.uuid /\ x.recurringId # NoId } }

Counted(s, s2) ==
    LET new == Materialized(s, s2)
    IN  [p \in DOMAIN matCount \cup new |->
            (IF p \in DOMAIN matCount THEN matCount[p] ELSE 0)
            + (IF p \in new THEN 1 ELSE 0)]

\* the error handler op throws when it runs from store s: a method call on
\* a rule list that is undefined, JSON.parse of the text 'undefined'
Thrown(s, op) ==
    IF op.op = "init"
    THEN IF s.localStorage.st_recurring = JSONstringify(undefined)
         THEN "SyntaxError" ELSE ""
    ELSE IF /\ op.op \in {"changeMonth", "addRecurring", "deleteRecurring",
                          "clearAllData"}
            /\ s.data.recurring = undefined
         THEN "TypeError" ELSE ""

\* the effect of a handler that leaves the store in state s2
Commit(s2, op) ==
    /\ s2.uuid <= MaxUuid
    /\ data' = s2.data
    /\ localStorage' = s2.localStorage
    /\ uuid' = s2.uuid
    /\ lastOp' = op
    /\ uncaught' = Thrown(State, op)
    /\ matCount' = Counted(State, s2)
    /\ deleted' = IF op.op = "deleteRecurring" /\ op.ok THEN deleted \cup {op.id}
                  ELSE IF op.op = "loadBackupData" /\ op.ok
                       THEN deleted \ RuleIds(s2.data)
                  ELSE deleted
    /\ UNCHANGED <<now, nowHour, utcOffset>>

\* the first load of the page, on a day today, with nothing stored
BootAt(today, h, offset) ==
    /\ now = today
    /\ nowHour = h
    /\ utcOffset = offset
    /\ LET s2 == init([data |-> StoreData(today), localStorage |-> EmptyStorage,
                       uuid |-> FirstUuid])
       IN  /\ data = s2.data
           /\ localStorage = s2.localStorage
           /\ uuid = s2.uuid
    /\ reloading = FALSE
    /\ lastOp = Op("init", NoId, TRUE)
    /\ matCount = << >>
    /\ deleted = {}
    /\ uncaught = ""

\* at noon in the zone of UTC: time of day and zone are read by the report
\* bounds only
Boot(today) == BootAt(today, 12, 0)

Init == \E today \in Clock : Boot(today)

\* DOMContentLoaded after a reload of the page: the script builds Store.data
\* anew and calls Store.init()
Reload ==
    /\ Commit(init([data |-> StoreData(now), localStorage |-> localStorage,
                    uuid |-> uuid]),
              Op("init", NoId, TRUE))
    /\ reloading' = FALSE

changeDate(delta) ==
    LET d == setDate(data.selectedDate, data.selectedDate.d + delta)
    IN  /\ ~reloading
        /\ d \in { setDate(now, now.d + k) : k \in (0 - DaySpan)..DaySpan }
        /\ Commit([State EXCEPT !.data.selectedDate = d], Op("changeDate", NoId, TRUE))
        /\ UNCHANGED reloading

changeMonth(delta) ==
    LET d == setMonth(data.selectedMonth, data.selectedMonth.m + delta)
        dist == MonthIndex(d) - MonthIndex(now)
        s1 == [State EXCEPT !.data.selectedMonth = d]
    IN  /\ ~reloading
        /\ dist <= MonthSpan /\ 0 - dist <= MonthSpan
        /\ Commit(ensureRecurringForMonth(s1, s1.data.selectedMonth),
                  Op("changeMonth", NoId, TRUE))
        /\ UNCHANGED reloading

\* getDay of an instant: 1970-01-01 was a Thursday
getDay(t) == (((t + utcOffset) \div 24) + 4) % 7

\* setDate / setMonth of an instant: the local date changes, the local hour stays
setDateOf(t, d) ==
    LET date == getLocalDate(t)
    IN  localInstant(MakeDate(date.y, date.m, d), (t + utcOffset) % 24)

setMonthOf(t, m, d) ==
    LET date == getLocalDate(t)
    IN  localInstant(MakeDate(date.y, m, d), (t + utcOffset) % 24)

setReportFilter(type) ==
    LET current == localInstant(now, nowHour)
        diff == getLocalDate(current).d - getDay(current)
        start == IF type = "weekly" THEN setDateOf(current, diff)
                 ELSE IF type = "monthly" THEN setDateOf(current, 1)
                 ELSE IF type = "yearly" THEN setMonthOf(current, 0, 1)
                 ELSE current
        end == IF type = "weekly" THEN setDateOf(current, diff + 6)
               ELSE IF type = "monthly"
               THEN setMonthOf(current, getLocalDate(current).m + 1, 0)
               ELSE IF type = "yearly" THEN setMonthOf(current, 11, 31)
               ELSE current
        s1 == [State EXCEPT !.data.reportFilter = type]
        s2 == IF type # "custom"
              THEN [s1 EXCEPT !.data.reportStartDate = toISODateString(start),
                              !.data.reportEndDate = toISODateString(end)]
              ELSE s1
    IN  /\ ~reloading
        /\ Commit(s2, Op("setReportFilter", NoId, TRUE))
        /\ UNCHANGED reloading

changeReportDate(field, value) ==
    LET s1 == IF field = "start" THEN [State EXCEPT !.data.reportStartDate = value]
              ELSE IF field = "end" THEN [State EXCEPT !.data.reportEndDate = value]
              ELSE State
    IN  /\ ~reloading
        /\ data.reportFilter = "custom"
        /\ Commit(s1, Op("changeReportDate", NoId, TRUE))
        /\ UNCHANGED reloading

\* the rows Views.home renders
HomeRows == { t \in Range(data.transactions) :
                t.isHomeExpense /\ isSameMonth(t.date, data.selectedMonth) }

\* the rows Views.work renders
WorkRows == { t \in Range(data.transactions) :
                ~t.isHomeExpense /\ isSameDay(t.date, data.selectedDate) }

togglePaid(id) ==
    /\ ~reloading
    /\ \E t \in HomeRows :
          /\ t.id = id /\ ~t.isReminder
          /\ Commit(updateTransaction(State, id, [isPaid |-> ~t.isPaid]),
                    Op("togglePaid", NoId, TRUE))
    /\ UNCHANGED reloading

\* updateReminder without isReminder: false among the updates
updateReminder_keepsFlag(id, amount) ==
    /\ ~reloading
    /\ \E t \in HomeRows : t.id = id /\ t.isReminder
    /\ IF amount = 0
       THEN Commit(State, Op("updateReminder", NoId, FALSE))
       ELSE Commit(updateTransaction(State, id,
                       [amount |-> amount, isPaid |-> FALSE]),
                   Op("updateReminder", NoId, TRUE))
    /\ UNCHANGED reloading

\* updateReminder with the link to the rule cleared by the updates
updateReminder_unlinks(id, amount) ==
    /\ ~reloading
    /\ \E t \in HomeRows : t.id = id /\ t.isReminder
    /\ IF amount = 0
       THEN Commit(State, Op("updateReminder", NoId, FALSE))
       ELSE Commit(updateTransaction(State, id,
                       [amount |-> amount, isReminder |-> FALSE, isPaid |-> FALSE,
                        recurringId |-> NoId]),
                   Op("updateReminder", NoId, TRUE))
    /\ UNCHANGED reloading

updateReminder(id, amount) ==
    /\ ~reloading
    /\ \E t \in HomeRows : t.id = id /\ t.isReminder
    /\ IF amount = 0
       THEN Commit(State, Op("updateReminder", NoId, FALSE))
       ELSE Commit(updateTransaction(State, id,
                       [amount |-> amount, isReminder |-> FALSE, isPaid |-> FALSE]),
                   Op("updateReminder", NoId, TRUE))
    /\ UNCHANGED reloading

deleteTransaction(id, confirm) ==
    LET keep(t) == t.id # id
    IN  /\ ~reloading
        /\ \E t \in HomeRows \cup WorkRows : t.id = id
        /\ IF confirm
           THEN Commit(save([State EXCEPT !.data.transactions = SelectSeq(@, keep)]),
                       Op("deleteTransaction", NoId, TRUE))
           ELSE Commit(State, Op("deleteTransaction", NoId, FALSE))
        /\ UNCHANGED reloading

Actions_deleteRecurring(id, confirm) ==
    /\ ~reloading
    /\ id \in RuleIds(data)
    /\ IF confirm
       THEN Commit(deleteRecurring(State, id), Op("deleteRecurring", id, TRUE))
       ELSE Commit(State, Op("deleteRecurring", id, FALSE))
    /\ UNCHANGED reloading

\* `${category} (${i + 1}/${qty})`
installmentLabel(category, i, qty) ==
    category \o " (" \o ToString(i + 1) \o "/" \o ToString(qty) \o ")"

RECURSIVE installments_allPaid(_, _, _, _, _, _, _, _)
\* the for loop with isPaid: isPaid on every installment
installments_allPaid(s, i, qty, parcelValue, category, base, isPaid, groupId) ==
    IF i >= qty THEN s
    ELSE LET day == IF base.d > 28 THEN 1 ELSE base.d
             t == [Transaction("expense", parcelValue,
                               installmentLabel(category, i, qty),
                               MakeDate(base.y, base.m + i, day), TRUE)
                     EXCEPT !.isPaid = isPaid,
                            !.installmentId = groupId]
         IN  installments_allPaid(addTransaction(s, t), i + 1, qty, parcelValue,
                                  category, base, isPaid, groupId)

RECURSIVE installments(_, _, _, _, _, _, _, _)
\* the for loop of the install branch of submitHomeExpense, from index i on
installments(s, i, qty, parcelValue, category, base, isPaid, groupId) ==
    IF i >= qty THEN s
    ELSE LET day == IF base.d > 28 THEN 1 ELSE base.d
             t == [Transaction("expense", parcelValue,
                               installmentLabel(category, i, qty),
                               MakeDate(base.y, base.m + i, day), TRUE)
                     EXCEPT !.isPaid = IF i = 0 THEN isPaid ELSE FALSE,
                            !.installmentId = groupId]
         IN  installments(addTransaction(s, t), i + 1, qty, parcelValue,
                          category, base, isPaid, groupId)

\* amount / qty; the amounts entered are multiples of qty
parcelOf(amount, qty, mode) == IF mode = "total" THEN amount \div qty ELSE amount

\* the install branch of submitHomeExpense: the group id, then the loop
submitInstallments(s, amount, category, isPaid, qty, mode) ==
    installments([s EXCEPT !.uuid = @ + 1], 0, qty, parcelOf(amount, qty, mode),
                 category, s.data.selectedMonth, isPaid, s.uuid)

submitHomeExpense(type, amount, category, isPaid, day, qty, mode) ==
    /\ ~reloading
    /\ IF type # "reminder" /\ amount = 0
       THEN Commit(State, Op("submitHomeExpense", NoId, FALSE))
       ELSE IF type = "recur"
       THEN Commit(addRecurring(State,
                       [id |-> NoId, category |-> category, amount |-> amount,
                        day |-> day, type |-> "fixed", active |-> FALSE]),
                   Op("addRecurring", NoId, TRUE))
       ELSE IF type = "reminder"
       THEN Commit(addRecurring(State,
                       [id |-> NoId, category |-> category, amount |-> 0,
                        day |-> day, type |-> "reminder", active |-> FALSE]),
                   Op("addRecurring", NoId, TRUE))
       ELSE IF type = "install"
       THEN Commit(submitInstallments(State, amount, category, isPaid, qty, mode),
                   Op("submitInstallments", NoId, TRUE))
       ELSE Commit(addTransaction(State,
                       [Transaction("expense", amount, category,
                                    data.selectedMonth, TRUE)
                          EXCEPT !.isPaid = isPaid]),
                   Op("submitHomeExpense", NoId, TRUE))
    /\ UNCHANGED reloading

\* the options of the account selects; the value is '' when there is none
AccountOptions == IF data.accounts = <<>> THEN {NoId}
                  ELSE { a.id : a \in Range(data.accounts) }

\* the test without the branch of 90% of limitSafe
needsConfirm_aboveSafe(accountId, amount) ==
    LET idx == findIndex(data.accounts, accountId)
        monthlyStatus == getAccountMonthlyStatus(data, accountId, now)
        newMonthlyTotal == monthlyStatus.total + amount
    IN  /\ idx # 0
        /\ data.accounts[idx].type = "mei"
        /\ \/ newMonthlyTotal > monthlyStatus.limitMax
           \/ newMonthlyTotal > monthlyStatus.limitSafe

\* whether submitIncome asks for confirmation before adding amount
needsConfirm(accountId, amount) ==
    LET idx == findIndex(data.accounts, accountId)
        monthlyStatus == getAccountMonthlyStatus(data, accountId, now)
        newMonthlyTotal == monthlyStatus.total + amount
    IN  /\ idx # 0
        /\ data.accounts[idx].type = "mei"
        /\ \/ newMonthlyTotal > monthlyStatus.limitMax
           \/ newMonthlyTotal > monthlyStatus.limitSafe
           \/ newMonthlyTotal * 10 >= monthlyStatus.limitSafe * 9

submitIncome(amount, accountId, confirm) ==
    /\ ~reloading
    /\ accountId \in AccountOptions
    /\ IF amount = 0 \/ accountId = NoId
       THEN Commit(State, Op("submitIncome", NoId, FALSE))
       ELSE IF needsConfirm(accountId, amount) /\ ~confirm
       THEN Commit(State, Op("submitIncome", NoId, FALSE))
       ELSE Commit(addTransaction(State,
                       [Transaction("income", amount, "", data.selectedDate, FALSE)
                          EXCEPT !.accountId = accountId]),
                   Op("submitIncome", NoId, TRUE))
    /\ UNCHANGED reloading

submitExpense(amount, category, accountId, newCat) ==
    LET s1 == IF newCat # "" THEN addCustomCategory(State, newCat) ELSE State
        cat == IF newCat # "" THEN newCat ELSE category
    IN  /\ ~reloading
        /\ accountId \in AccountOptions
        /\ category \in Range(data.customCategories) \cup {"new"}
        /\ IF amount = 0 \/ accountId = NoId
           THEN Commit(s1, Op("submitExpense", NoId, FALSE))
           ELSE Commit(addTransaction(s1,
                           [Transaction("expense", amount,
                                        IF cat = "" THEN "Outros" ELSE cat,
                                        data.selectedDate, FALSE)
                              EXCEPT !.accountId = accountId]),
                       Op("submitExpense", NoId, TRUE))
        /\ UNCHANGED reloading

createAccount(initial) ==
    /\ ~reloading
    /\ Len(data.accounts) < MaxAccounts
    /\ Commit(addAccount(State, [id |-> NoId, type |-> "mei", initialBalance |-> initial]),
              Op("createAccount", NoId, TRUE))
    /\ UNCHANGED reloading

Actions_deleteAccount(id, confirm) ==
    /\ ~reloading
    /\ \E a \in Range(data.accounts) : a.id = id /\ a.type # "cash"
    /\ IF confirm
       THEN Commit(deleteAccount(State, id), Op("deleteAccount", NoId, TRUE))
       ELSE Commit(State, Op("deleteAccount", NoId, FALSE))
    /\ UNCHANGED reloading

\* a call of Store.updateAccount; no handler of Actions makes one
Store_updateAccount(id, updates) ==
    /\ ~reloading
    /\ Commit(updateAccount(State, id, updates), Op("updateAccount", NoId, TRUE))
    /\ UNCHANGED reloading

\* a call of Store.updateTransaction with any id, as updateReminder makes it
Store_updateTransaction(id, updates) ==
    /\ ~reloading
    /\ Commit(updateTransaction(State, id, updates),
              Op("updateTransaction", NoId, findIndex(data.transactions, id) # 0))
    /\ UNCHANGED reloading

processUpload(blob) ==
    /\ ~reloading
    /\ Commit(loadBackupData(State, blob),
              Op("loadBackupData", NoId, loadBackupOk(blob)))
    /\ UNCHANGED reloading

Store_clearAllData ==
    /\ ~reloading
    /\ Commit(clearAllData(State), Op("clearAllData", NoId, TRUE))
    /\ reloading' = (data.recurring # undefined)

----------------------------------------------------------------------------
(* The household ledger: the operations of the household view and the    *)
(* reload of the page                                                      *)

Next ==
    \/ Reload
    \/ \E delta \in {-1, 1} : changeMonth(delta)
    \/ \E type \in {"single", "recur", "reminder"},
          amount \in HomeAmounts \ {0}, category \in HomeCats,
          day \in RecurDays :
            submitHomeExpense(type, amount, category, FALSE, day, 2, "parcel")
    \/ \E t \in Range(data.transactions), amount \in ReminderAmounts :
            updateReminder(t.id, amount)
    \/ \E t \in Range(data.transactions) : deleteTransaction(t.id, TRUE)
    \/ \E r \in Range(data.recurring), confirm \in BOOLEAN :
            Actions_deleteRecurring(r.id, confirm)

Spec == Init /\ [][Next]_vars

(* Backup, reset and reload, with the rules they carry over *)

BackupNext ==
    \/ Reload
    \/ \E delta \in {-1, 1} : changeMonth(delta)
    \/ \E type \in {"recur", "reminder"}, category \in HomeCats, day \in RecurDays :
            submitHomeExpense(type, 150, category, FALSE, day, 2, "parcel")
    \/ \E t \in Range(data.transactions) : togglePaid(t.id)
    \/ \E t \in Range(data.transactions) : deleteTransaction(t.id, TRUE)
    \/ \E blob \in Blobs(now) : processUpload(blob)
    \/ Store_clearAllData

BackupSpec == Init /\ [][BackupNext]_vars

(* The recurrence materializer on every month and every day of a rule *)

MaterializeInit == \E today \in Calendar : Boot(today)

MaterializeNext ==
    \/ Reload
    \/ \E delta \in {-1, 1} : changeMonth(delta)
    \/ \E type \in {"recur", "reminder"}, category \in HomeCats, day \in AllDays :
            submitHomeExpense(type, 150, category, FALSE, day, 2, "parcel")

MaterializeSpec == MaterializeInit /\ [][MaterializeNext]_vars

(* The accounts and the business ledger *)

LedgerNext ==
    \/ \E initial \in InitialBalances : createAccount(initial)
    \/ \E a \in Range(data.accounts), confirm \in BOOLEAN :
            Actions_deleteAccount(a.id, confirm)
    \/ \E amount \in IncomeAmounts, accountId \in AccountOptions :
            submitIncome(amount, accountId, TRUE)
    \/ \E amount \in ExpenseAmounts, accountId \in AccountOptions, newCat \in NewCats :
            submitExpense(amount, "Transporte", accountId, newCat)
    \/ \E type \in {"single", "install"}, amount \in HomeAmounts,
          isPaid \in BOOLEAN, qty \in InstallQtys, mode \in {"total", "parcel"} :
            submitHomeExpense(type, amount, "Luz", isPaid, 10, qty, mode)
    \/ \E t \in Range(data.transactions) : togglePaid(t.id)
    \/ \E t \in Range(data.transactions), confirm \in BOOLEAN :
            deleteTransaction(t.id, confirm)

LedgerSpec == Init /\ [][LedgerNext]_vars

(* The income limits of the regulated accounts *)

LimitNext ==
    \/ \E delta \in {-1, 1} : changeDate(delta)
    \/ \E initial \in LimitBalances : createAccount(initial)
    \/ \E a \in Range(data.accounts) : Actions_deleteAccount(a.id, TRUE)
    \/ \E amount \in LimitIncomes, accountId \in AccountOptions \ {CashId} :
            submitIncome(amount, accountId, TRUE)

LimitSpec == Init /\ [][LimitNext]_vars

(* The bounds of the report, in every zone and at every hour of the day *)

ReportInit ==
    \E today \in ReportClock, h \in Hours, offset \in UtcOffsets :
        BootAt(today, h, offset)

ReportNext ==
    \/ Reload
    \/ \E type \in {"weekly", "monthly", "yearly", "custom"} : setReportFilter(type)
    \/ \E field \in {"start", "end"}, value \in ReportDates :
            changeReportDate(field, value)

ReportSpec == ReportInit /\ [][ReportNext]_vars

(* Every mutator of the store next to the others *)

PersistInit == Boot([y |-> 2024, m |-> 0, d |-> 1])

PersistNext ==
    \/ Reload
    \/ changeMonth(1)
    \/ createAccount(0)
    \/ \E accountId \in AccountOptions \ {CashId} :
            Store_updateAccount(accountId, [initialBalance |-> 80000])
    \/ \E a \in Range(data.accounts) : Actions_deleteAccount(a.id, TRUE)
    \/ submitIncome(2000, CashId, TRUE)
    \/ submitExpense(0, "Transporte", CashId, "Frete")
    \/ submitHomeExpense("recur", 150, "Luz", FALSE, 30, 2, "parcel")
    \/ \E t \in Range(data.transactions) : togglePaid(t.id)
    \/ \E t \in Range(data.transactions) : deleteTransaction(t.id, TRUE)
    \/ \E r \in Range(data.recurring) : Actions_deleteRecurring(r.id, TRUE)
    \/ \E blob \in Blobs(now) : processUpload(blob)
    \/ Store_clearAllData

PersistSpec == PersistInit /\ [][PersistNext]_vars

(* The amounts a user may type: the number inputs carry no min attribute *)

AmountNext ==
    \/ Reload
    \/ \E amount \in TypedAmounts : submitIncome(amount, CashId, TRUE)
    \/ \E amount \in TypedAmounts : submitExpense(amount, "Transporte", CashId, "")
    \/ \E type \in {"single", "install", "recur", "reminder"},
          amount \in TypedAmounts :
            submitHomeExpense(type, amount, "Luz", FALSE, 10, 2, "parcel")
    \/ \E t \in Range(data.transactions), amount \in TypedAmounts :
            updateReminder(t.id, amount)
    \/ \E t \in Range(data.transactions) : togglePaid(t.id)

AmountSpec == PersistInit /\ [][AmountNext]_vars

(* Purchases in installments from every month the view reaches *)

InstallInit == \E today \in InstallClock : Boot(today)

InstallNext ==
    \/ \E delta \in {-1, 1} : changeMonth(delta)
    \/ \E amount \in InstallAmounts, category \in HomeCats, isPaid \in BOOLEAN,
          qty \in InstallQtys, mode \in {"total", "parcel"} :
            submitHomeExpense("install", amount, category, isPaid, 10, qty, mode)
    \/ \E t \in Range(data.transactions) : togglePaid(t.id)
    \/ \E t \in Range(data.transactions) : deleteTransaction(t.id, TRUE)

InstallSpec == InstallInit /\ [][InstallNext]_vars

(* The store functions that change one thing and leave the rest *)

FrameNext ==
    \/ submitHomeExpense("single", 150, "Luz", FALSE, 10, 2, "parcel")
    \/ \E newCat \in FrameCats : submitExpense(0, "Transporte", CashId, newCat)
    \/ submitExpense(500, "Transporte", CashId, "Frete")
    \/ \E id \in { t.id : t \in Range(data.transactions) } \cup {uuid},
          updates \in FrameUpdates :
            Store_updateTransaction(id, updates)
    \/ \E t \in Range(data.transactions) : deleteTransaction(t.id, TRUE)

FrameSpec == PersistInit /\ [][FrameNext]_vars

(* The categories of the report *)

CategoryNext ==
    \/ \E amount \in CategoryAmounts, newCat \in TypedCats :
            submitExpense(amount, "Transporte", CashId, newCat)
    \/ submitIncome(2000, CashId, TRUE)
    \/ \E category \in HomeCats :
            submitHomeExpense("single", 150, category, FALSE, 10, 2, "parcel")
    \/ \E t \in Range(data.transactions) : deleteTransaction(t.id, TRUE)

CategorySpec == Init /\ [][CategoryNext]_vars

----------------------------------------------------------------------------
(* Properties of the recurrence materializer *)

\* the transactions of rule id dated in the month of date
OfRuleInMonth(transactions, id, date) ==
    { i \in 1..Len(transactions) :
        /\ transactions[i].recurringId = id
        /\ transactions[i].date.y = date.y
        /\ transactions[i].date.m = date.m }

\* the months a call may target: those around now, one further than the view goes
TargetMonths ==
    { MakeDate(now.y, now.m + k, 1) : k \in (0 - MonthSpan - 1)..(MonthSpan + 1) }

ActiveRules(d) == { r \in Range(d.recurring) : r.active }

\* C1: in every state of the store and for every target month, calling
\* ensureRecurringForMonth twice in a row leaves exactly one transaction of
\* each active rule dated in that month, and the second call adds nothing.
C1_Idempotent ==
    \A target \in TargetMonths :
        LET once == ensureRecurringForMonth(State, target)
            twice == ensureRecurringForMonth(once, target)
        IN  /\ twice.data.transactions = once.data.transactions
            /\ \A r \in ActiveRules(data) :
                  Cardinality(OfRuleInMonth(twice.data.transactions, r.id, target)) = 1

\* a rule was materialized by addRecurring and again by the init of a reload,
\* and a month without its transaction is left for a first call to fill
C1_Witness ==
    /\ lastOp.op = "init"
    /\ \E r \in ActiveRules(data) :
          /\ OfRuleInMonth(data.transactions, r.id, data.selectedMonth) # {}
          /\ \E target \in TargetMonths :
                OfRuleInMonth(data.transactions, r.id, target) = {}

Pushed == { t \in Range(data'.transactions) : t.id >= uuid /\ t.id < uuid' }

\* the last day of a month, from the calendar
LastDay(y, m) ==
    IF m \in {0, 2, 4, 6, 7, 9, 11} THEN 31
    ELSE IF m \in {3, 5, 8, 10} THEN 30
    ELSE IF y % 4 = 0 /\ (y % 100 # 0 \/ y % 400 = 0) THEN 29 ELSE 28

Min(a, b) == IF a < b THEN a ELSE b

\* the rule of data' a transaction refers to
RuleOf(t) == CHOOSE r \in Range(data'.recurring) : r.id = t.recurringId

\* C3: every transaction the materializer creates for a rule of day d in
\* 1..31 is dated in the target month, on day min(d, last day of the month).
C3_DayClamp ==
    [][\A t \in Pushed :
          t.recurringId # NoId =>
            /\ t.date.y = data'.selectedMonth.y
            /\ t.date.m = data'.selectedMonth.m
            /\ t.date.d = Min(RuleOf(t).day,
                              LastDay(data'.selectedMonth.y, data'.selectedMonth.m))]_vars

\* a rule of day 30 has its transaction on the 28th of February 2023
C3_Witness ==
    \E t \in Range(data.transactions), r \in Range(data.recurring) :
        /\ t.recurringId = r.id
        /\ r.day = 30
        /\ t.date = [y |-> 2023, m |-> 1, d |-> 28]

\* C4: every transaction the materializer creates is an unpaid household
\* expense carrying the id of its rule; for a reminder rule it has amount 0
\* and isReminder, otherwise the amount of the rule and not isReminder.
C4_Fields ==
    [][\A t \in Pushed :
          t.recurringId # NoId =>
            /\ t.type = "expense"
            /\ t.isHomeExpense
            /\ ~t.isPaid
            /\ t.recurringId \in RuleIds(data')
            /\ IF RuleOf(t).type = "reminder"
               THEN t.amount = 0 /\ t.isReminder
               ELSE t.amount = RuleOf(t).amount /\ ~t.isReminder]_vars

\* the rule {day 10, amount 150, fixed} has given March 2023 one transaction,
\* dated the 10th, of amount 150
C4_Witness ==
    \E t \in Range(data.transactions) :
        /\ t.recurringId # NoId
        /\ t.date = [y |-> 2023, m |-> 2, d |-> 10]
        /\ t.amount = 150 /\ t.isHomeExpense /\ ~t.isPaid /\ ~t.isReminder
        /\ Cardinality(OfRuleInMonth(data.transactions, t.recurringId, t.date)) = 1

\* C5: deleteRecurring(id) leaves every transaction as it was, and from then
\* on no step creates a transaction with recurringId = id.
C5_DeleteRule ==
    [][/\ (lastOp'.op = "deleteRecurring" /\ lastOp'.ok) =>
             /\ data'.transactions = data.transactions
             /\ lastOp'.id \notin RuleIds(data')
             /\ lastOp'.id \in deleted'
       /\ \A id \in deleted :
             \A t \in Range(data'.transactions) :
                t.recurringId = id =>
                    \E u \in Range(data.transactions) : u.id = t.id]_vars

\* a rule was deleted, its transaction is still there, and the materializer
\* has since run on a month in which the rule has no transaction
C5_Witness ==
    /\ lastOp.op \in {"changeMonth", "init"}
    /\ \E id \in deleted :
          /\ \E t \in Range(data.transactions) : t.recurringId = id
          /\ OfRuleInMonth(data.transactions, id, data.selectedMonth) = {}

\* every active rule has a transaction dated in the selected month
AllMaterialized(d) ==
    \A r \in ActiveRules(d) : OfRuleInMonth(d.transactions, r.id, d.selectedMonth) # {}

\* C6: after init, after changeMonth and after a successful loadBackupData,
\* every active rule has a transaction dated in the selected month.
C6_MaterializedOnMonthChange ==
    (\/ lastOp.op \in {"init", "changeMonth"}
     \/ lastOp.op = "loadBackupData" /\ lastOp.ok) => AllMaterialized(data)

\* C7: a pair of a rule and a month that has been materialized keeps its
\* transaction, and is materialized once only.
C7_OneDirectional ==
    \A p \in DOMAIN matCount :
        /\ matCount[p] = 1
        /\ \E t \in Range(data.transactions) :
              t.recurringId = p[1] /\ t.date.y = p[2] /\ t.date.m = p[3]

----------------------------------------------------------------------------
(* Properties of the derived metrics *)

\* the ids a caller may ask about: the accounts, the account references of
\* the transactions (dangling ones included) and no id at all
QueriedIds ==
    { a.id : a \in Range(data.accounts) }
    \cup { t.accountId : t \in Range(data.transactions) }
    \cup {NoId}

HasAccount(id) == \E a \in Range(data.accounts) : a.id = id
AccountOf(id) == CHOOSE a \in Range(data.accounts) : a.id = id

RECURSIVE SumAt(_)
\* the sum of the amounts of the transactions at the positions S
SumAt(S) ==
    IF S = {} THEN 0
    ELSE LET i == CHOOSE k \in S : TRUE
         IN  data.transactions[i].amount + SumAt(S \ {i})

Business(id, type) ==
    { i \in 1..Len(data.transactions) :
        /\ data.transactions[i].accountId = id
        /\ data.transactions[i].type = type
        /\ ~data.transactions[i].isHomeExpense }

\* C8: the balance of an existing account is its initial balance plus the
\* incomes minus the expenses of its transactions that are not household
\* transactions, so household transactions do not count; without an
\* account the balance is 0.
C8_Balance ==
    \A id \in QueriedIds :
        LET isBusiness(t) == ~t.isHomeExpense
            business == [data EXCEPT !.transactions = SelectSeq(@, isBusiness)]
        IN  /\ getAccountBalance(data, id) =
                 IF HasAccount(id)
                 THEN AccountOf(id).initialBalance
                      + SumAt(Business(id, "income")) - SumAt(Business(id, "expense"))
                 ELSE 0
            /\ getAccountBalance(business, id) = getAccountBalance(data, id)

\* an account has an income of 2000 and an expense of 500, balance 1500,
\* and the store holds a household expense
C8_Witness ==
    /\ \E t \in Range(data.transactions) : t.isHomeExpense /\ t.amount > 0
    /\ \E id \in QueriedIds :
          /\ HasAccount(id)
          /\ Business(id, "income") # {}
          /\ Business(id, "expense") # {}
          /\ getAccountBalance(data, id) = 1500

IncomeInYear(id) ==
    { i \in 1..Len(data.transactions) :
        /\ data.transactions[i].accountId = id
        /\ data.transactions[i].type = "income"
        /\ data.transactions[i].date.y = now.y }

IncomeInMonth(id) ==
    { i \in IncomeInYear(id) : data.transactions[i].date.m = now.m }

IsRegulated(id) == HasAccount(id) /\ AccountOf(id).type = "mei"

\* C9: for a regulated account the annual status has total = initial balance
\* + income of the current year, limits 81000 and 97200, and is safe up to
\* 81000, warning up to 97200, critical above; for any other id it is null.
C9_AnnualStatus ==
    \A id \in QueriedIds :
        LET st == getAccountLimitStatus(data, id, now)
        IN  IF IsRegulated(id)
            THEN /\ ~st.isNull
                 /\ st.total = AccountOf(id).initialBalance + SumAt(IncomeInYear(id))
                 /\ st.limitSafe = 81000 /\ st.limitMax = 97200
                 /\ (st.status = "safe") = (st.total <= 81000)
                 /\ (st.status = "warning") = (st.total > 81000 /\ st.total <= 97200)
                 /\ (st.status = "critical") = (st.total > 97200)
            ELSE st.isNull

\* opening balance 80000 and 2000 of income this year: total 82000, warning
C9_Witness ==
    \E id \in QueriedIds :
        /\ IsRegulated(id)
        /\ AccountOf(id).initialBalance = 80000
        /\ SumAt(IncomeInYear(id)) = 2000
        /\ getAccountLimitStatus(data, id, now).total = 82000
        /\ getAccountLimitStatus(data, id, now).status = "warning"

\* C10: the monthly status has the fields of the annual one, its total is
\* the income of the current month alone, its limits are 6750 and 8100, one
\* twelfth of the annual ones, and it is safe up to 6750, warning up to
\* 8100, critical above.
C10_MonthlyStatus ==
    \A id \in QueriedIds :
        LET st == getAccountMonthlyStatus(data, id, now)
            annual == getAccountLimitStatus(data, id, now)
        IN  /\ DOMAIN st = DOMAIN annual
            /\ IF IsRegulated(id)
               THEN /\ ~st.isNull
                    /\ st.total = SumAt(IncomeInMonth(id))
                    /\ st.limitSafe = 6750 /\ st.limitMax = 8100
                    /\ st.limitSafe * 12 = annual.limitSafe
                    /\ st.limitMax * 12 = annual.limitMax
                    /\ (st.status = "safe") = (st.total <= 6750)
                    /\ (st.status = "warning") = (st.total > 6750 /\ st.total <= 8100)
                    /\ (st.status = "critical") = (st.total > 8100)
               ELSE st.isNull

\* a regulated account has 8100 of income this month, which is still a
\* warning, and an income in another month of this year that does not count
C10_Witness ==
    \E id \in QueriedIds :
        /\ IsRegulated(id)
        /\ IncomeInYear(id) \ IncomeInMonth(id) # {}
        /\ getAccountMonthlyStatus(data, id, now).total = 8100
        /\ getAccountMonthlyStatus(data, id, now).status = "warning"

----------------------------------------------------------------------------
(* Properties of the report *)

\* the days of the report's bounds and the days next to them
NextDay(date) == MakeDate(date.y, date.m, date.d + 1)
PrevDay(date) == MakeDate(date.y, date.m, date.d - 1)

\* a transaction made at hour h of the local day date is in the report
InReport(date, h) ==
    isWithinRange(localInstant(date, h), data.reportStartDate, data.reportEndDate)

\* C11: with bounds held as date strings, in every zone, a transaction on the
\* day of the end bound is in the range at every hour of the day and one on
\* the following day is not; one on the day of the start bound is in the
\* range and one on the day before is not.
C11_RangeBoundary ==
    dayNumber(data.reportStartDate) <= dayNumber(data.reportEndDate) =>
        \A h \in 0..23 :
            /\ InReport(data.reportEndDate, h)
            /\ ~InReport(NextDay(data.reportEndDate), h)
            /\ InReport(data.reportStartDate, h)
            /\ ~InReport(PrevDay(data.reportStartDate), h)

\* the same in the zones that are not west of UTC
C11_RangeBoundaryEast ==
    utcOffset >= 0 => C11_RangeBoundary

\* the category a transaction is grouped under
LabelOf(t) == IF t.category = "" THEN "Outros" ELSE t.category

RECURSIVE SumOfAmounts(_)
SumOfAmounts(list) ==
    IF list = <<>> THEN 0 ELSE Head(list).amount + SumOfAmounts(Tail(list))

RECURSIVE SumOfVals(_)
SumOfVals(groups) ==
    IF groups = <<>> THEN 0 ELSE Head(groups).val + SumOfVals(Tail(groups))

RECURSIVE SumOfPercents(_)
SumOfPercents(groups) ==
    IF groups = <<>> THEN 0 ELSE Head(groups).percent.n + SumOfPercents(Tail(groups))

AggregateClosure(list) ==
    LET groups == groupByCat(list)
        total == SumOfAmounts(list)
    IN  /\ Len(groups) = Cardinality({ LabelOf(t) : t \in Range(list) })
        /\ \A t \in Range(list) : \E g \in Range(groups) : g.name = LabelOf(t)
        /\ \A g \in Range(groups) : g.isNumber /\ ~g.percent.isNaN
        /\ SumOfVals(groups) = total
        /\ total > 0 =>
              /\ \A g \in Range(groups) : g.percent.d = total
              /\ SumOfPercents(groups) = 100 * total
        /\ list = <<>> => groups = <<>>

\* the lists the report groups, and the whole ledger
GroupedLists == {workExpenses(data), homeTransactions(data), data.transactions}

\* C12: for any list of transactions the grouping helper returns one group
\* per distinct category (absent category under 'Outros'), the totals of the
\* groups sum to the sum of the amounts, the percents sum to 100 when the
\* grand total is positive, and an empty list gives no group.
C12_AggregateClosure ==
    \A list \in GroupedLists : AggregateClosure(list)

\* the same for lists whose categories are not names of Object.prototype
C12_AggregateClosureOwnNames ==
    \A list \in GroupedLists :
        (\A t \in Range(list) : LabelOf(t) \notin ObjectPrototype)
            => AggregateClosure(list)

----------------------------------------------------------------------------
(* Properties of backup and persistence *)

\* what save writes for the collections of d
PersistedOf(d) ==
    [st_transactions |-> JSONstringify(d.transactions),
     st_customCategories |-> JSONstringify(d.customCategories),
     st_homeCategories |-> JSONstringify(d.homeCategories),
     st_accounts |-> JSONstringify(d.accounts),
     st_recurring |-> JSONstringify(d.recurring)]

C14_ImportSuccess ==
    [][(lastOp'.op = "loadBackupData" /\ lastOp'.ok) =>
          /\ data' = BackupData(now)
          /\ localStorage' = PersistedOf(BackupData(now))]_vars

\* an accepted import after rules or transactions had been made
C14_Witness ==
    /\ lastOp.op = "loadBackupData" /\ lastOp.ok
    /\ uuid > FirstUuid
    /\ data = BackupData(now)

\* C15: after each mutator of the store returns (addTransaction,
\* updateTransaction, deleteTransaction, addAccount, updateAccount,
\* deleteAccount, addCustomCategory, addRecurring, deleteRecurring,
\* ensureRecurringForMonth, loadBackupData, clearAllData), the persisted
\* transactions, categories, accounts and rules equal those in memory.
C15_Persisted ==
    localStorage = PersistedOf(data)

\* a store whose five collections have all been changed since the first load
C15_Witness ==
    /\ includes(data.customCategories, "Frete")
    /\ \E a \in Range(data.accounts) : a.type = "mei" /\ a.initialBalance = 80000
    /\ \E t \in Range(data.transactions) : t.recurringId # NoId /\ t.isPaid
    /\ data.recurring # <<>>
    /\ lastOp.op = "togglePaid"

----------------------------------------------------------------------------
(* Properties of the submissions *)

\* the step is a submission of the form named op that was rejected
RejectedStep(op) == lastOp'.op = op /\ ~lastOp'.ok

StoreUnchanged == data' = data /\ localStorage' = localStorage

\* C16: a submission that submitIncome, submitExpense or submitHomeExpense
\* rejects (amount unparsable or zero, no account selected) changes no
\* collection of the store and no persisted value, also when a new category
\* name came with the rejected expense.
C16_RejectedUnchanged ==
    [][(\E op \in {"submitIncome", "submitExpense", "submitHomeExpense"} :
            RejectedStep(op)) => StoreUnchanged]_vars

\* the same for the two forms that carry no new category
C16_RejectedIncomeHome ==
    [][(\E op \in {"submitIncome", "submitHomeExpense"} :
            RejectedStep(op)) => StoreUnchanged]_vars

\* C17: every transaction has an amount of zero or more, whatever numbers
\* are submitted through submitIncome, submitExpense, submitHomeExpense
\* (single, installment, recurring) and updateReminder.
C17_NonNegative ==
    \A t \in Range(data.transactions) : t.amount >= 0

\* C18: every transaction with isReminder = true has amount 0; updateReminder,
\* the one operation that gives it another amount, clears isReminder in the
\* same step.
C18_ReminderZero ==
    \A t \in Range(data.transactions) : t.isReminder => t.amount = 0

\* updateReminder has just resolved the transaction of a reminder rule
C18_Witness ==
    /\ lastOp.op = "updateReminder" /\ lastOp.ok
    /\ \E r \in Range(data.recurring), t \in Range(data.transactions) :
          /\ r.type = "reminder" /\ t.recurringId = r.id
          /\ ~t.isReminder /\ t.amount = 90

\* the transactions of rule id dated in the month of date, after the step
OfRuleInMonthAfter(transactions, id, date) ==
    { i \in 1..Len(transactions) :
        /\ transactions[i].recurringId = id
        /\ isSameMonth(transactions[i].date, date) }

\* C19: after updateReminder resolves a materialized reminder with an amount
\* a > 0 the transaction has amount a, isReminder false, isPaid false and the
\* id, date and recurringId it had; ensureRecurringForMonth for the same
\* month then creates no further transaction for that rule.
C19_Resolution ==
    [][(lastOp'.op = "updateReminder" /\ lastOp'.ok) =>
          /\ Len(data'.transactions) = Len(data.transactions)
          /\ \E i \in 1..Len(data.transactions) :
                LET old == data.transactions[i]
                    new == data'.transactions[i]
                    after == ensureRecurringForMonth(
                                 [data |-> data', localStorage |-> localStorage',
                                  uuid |-> uuid'], new.date)
                IN  /\ old.isReminder /\ old.recurringId # NoId
                    /\ new.amount \in TypedAmounts \ {0}
                    /\ new.amount > 0 =>
                          /\ new = [old EXCEPT !.amount = new.amount,
                                               !.isReminder = FALSE, !.isPaid = FALSE]
                          /\ \A j \in 1..Len(data.transactions) :
                                j # i => data'.transactions[j] = data.transactions[j]
                          /\ Cardinality(OfRuleInMonthAfter(after.data.transactions,
                                              new.recurringId, new.date)) = 1]_vars

\* a resolved reminder after a reload: the materializer has run again and
\* the rule still has the one transaction in the month
C19_Witness ==
    /\ lastOp.op = "init"
    /\ \E r \in Range(data.recurring) :
          /\ r.type = "reminder" /\ r.active
          /\ \E t \in Range(data.transactions) :
                /\ t.recurringId = r.id /\ ~t.isReminder /\ t.amount = 90
                /\ Cardinality(OfRuleInMonthAfter(data.transactions, r.id, t.date)) = 1

\* numbers of installments the expansion is tried with
InstallCounts == 2..4

\* the transactions one installment request appends to the store
Appended(r) ==
    SubSeq(r.data.transactions, Len(data.transactions) + 1, Len(r.data.transactions))

ExpandsTo(amount, category, isPaid, n, mode) ==
    LET r == submitInstallments(State, amount, category, isPaid, n, mode)
        new == Appended(r)
    IN  /\ Len(new) = n
        /\ SubSeq(r.data.transactions, 1, Len(data.transactions)) = data.transactions
        /\ \A k \in 1..n :
              /\ MonthIndex(new[k].date) = MonthIndex(data.selectedMonth) + k - 1
              /\ new[k].date.d <= 28
              /\ new[k].installmentId = new[1].installmentId
              /\ new[k].installmentId # NoId
              /\ new[k].category = category \o " (" \o ToString(k) \o "/"
                                             \o ToString(n) \o ")"
              /\ new[k].amount * (IF mode = "total" THEN n ELSE 1) = amount
              /\ new[k].isPaid = (k = 1 /\ isPaid)
              /\ new[k].type = "expense" /\ new[k].isHomeExpense

\* C20: one installment request with n installments appends n transactions;
\* the k-th is dated in the k-th month from the selected month on a day of
\* at most 28, all share one installmentId, the k-th category is
\* '<category> (k/n)', each amount is amount/n in total mode and amount in
\* per-installment mode, and only the first carries the paid flag.
C20_Installments ==
    /\ \A n \in InstallCounts, isPaid \in BOOLEAN, mode \in {"total", "parcel"},
          amount \in InstallAmounts :
            ExpandsTo(amount, "Luz", isPaid, n, mode)
    /\ LET three == Appended(submitInstallments(State, 1200, "Luz", TRUE, 3, "total"))
       IN  /\ Len(three) = 3
           /\ \A k \in 1..3 : three[k].amount = 400
           /\ three[1].category = "Luz (1/3)" /\ three[3].category = "Luz (3/3)"

\* a paid purchase in two installments made in a December: the second is
\* dated in the January of the next year, unpaid
C20_Witness ==
    /\ lastOp.op = "submitInstallments"
    /\ \E t1, t2 \in Range(data.transactions) :
          /\ t1.installmentId # NoId /\ t1.installmentId = t2.installmentId
          /\ t1.category = "Luz (1/2)" /\ t2.category = "Luz (2/2)"
          /\ t1.date.m = 11 /\ t2.date.m = 0 /\ t2.date.y = t1.date.y + 1
          /\ t1.isPaid /\ ~t2.isPaid
          /\ t1.amount = 600 /\ t2.amount = 600

----------------------------------------------------------------------------
(* Properties of the store functions: what a call leaves unchanged *)

\* the ids of the transactions of the store, and one that is none of them
TransactionIds == { t.id : t \in Range(data.transactions) }

\* updateTransaction(id, updates) on the current store
UpdatesOnly(id, updates) ==
    LET r == updateTransaction(State, id, updates)
        old == data.transactions
        new == r.data.transactions
    IN  IF id \notin TransactionIds
        THEN r = State
        ELSE /\ Len(new) = Len(old)
             /\ r.uuid = uuid
             /\ [r.data EXCEPT !.transactions = old] = data
             /\ \E i \in 1..Len(old) :
                   /\ old[i].id = id
                   /\ \A f \in DOMAIN old[i] :
                         new[i][f] = IF f \in DOMAIN updates THEN updates[f]
                                     ELSE old[i][f]
                   /\ \A j \in 1..Len(old) : j # i => new[j] = old[j]

\* C21: updateTransaction with an id that is not in the store changes no
\* transaction, no other collection and no persisted value; with an id of the
\* store it changes the fields named in updates on that transaction only.
C21_UpdateFrame ==
    \A id \in TransactionIds \cup {uuid}, updates \in FrameUpdates :
        UpdatesOnly(id, updates)

\* updateTransaction has been called with an id the store does not hold,
\* and before that with one it holds, next to a transaction left alone
C21_Witness ==
    /\ lastOp.op = "updateTransaction" /\ ~lastOp.ok
    /\ \E t \in Range(data.transactions) : t.isPaid
    /\ \E t \in Range(data.transactions) : ~t.isPaid

NoDuplicates(seq) ==
    \A i, j \in 1..Len(seq) : seq[i] = seq[j] => i = j

\* addCustomCategory(name) on the current store
AddsOnce(name) ==
    LET r == addCustomCategory(State, name)
    IN  IF \E i \in 1..Len(data.customCategories) : data.customCategories[i] = name
        THEN r = State
        ELSE /\ r.data.customCategories = data.customCategories \o <<name>>
             /\ [r.data EXCEPT !.customCategories = data.customCategories] = data

\* C23: after any sequence of addCustomCategory calls the business vocabulary
\* holds no name twice: a name that is present is not appended and the call
\* changes nothing, a new name is appended at the end and the names present
\* keep their order.
C23_NoDuplicateCategory ==
    /\ NoDuplicates(data.customCategories)
    /\ SubSeq(data.customCategories, 1, Len(DefaultCustomCategories))
          = DefaultCustomCategories
    /\ \A name \in FrameCats : AddsOnce(name)

\* two names have been added, and a later call with a name of the vocabulary
\* has left it as it was
C23_Witness ==
    /\ data.customCategories = DefaultCustomCategories \o <<"Pedagio", "Frete">>
    /\ lastOp.op = "submitExpense" /\ ~lastOp.ok

\* the ids of the accounts a step removes
RemovedAccounts ==
    { a.id : a \in Range(data.accounts) } \ { a.id : a \in Range(data'.accounts) }

\* C22: deleteAccount(id) removes the account and nothing else: the
\* transactions are unchanged and keep the id of the account; afterwards
\* getAccountBalance(id) is 0 and getAccountLimitStatus(id) and
\* getAccountMonthlyStatus(id) are null.
C22_DeleteAccountFrame ==
    [][(lastOp'.op = "deleteAccount" /\ lastOp'.ok) =>
          /\ data'.transactions = data.transactions
          /\ [data' EXCEPT !.accounts = data.accounts] = data
          /\ Cardinality(RemovedAccounts) = 1
          /\ \A a \in Range(data'.accounts) : a \in Range(data.accounts)
          /\ \A id \in RemovedAccounts :
                /\ getAccountBalance(data', id) = 0
                /\ getAccountLimitStatus(data', id, now).isNull
                /\ getAccountMonthlyStatus(data', id, now).isNull]_vars

\* an account with an income has been deleted: the income is still in the
\* ledger and names an account the store no longer holds
C22_Witness ==
    /\ lastOp.op = "deleteAccount" /\ lastOp.ok
    /\ \E t \in Range(data.transactions) :
          /\ t.accountId # NoId /\ t.type = "income"
          /\ \A a \in Range(data.accounts) : a.id # t.accountId

\* no transaction and no account but the default cash account, in memory
\* and in storage
Erased(d, ls) ==
    /\ d.transactions = <<>>
    /\ d.accounts = DefaultAccounts
    /\ ls.st_transactions = JSONstringify(<<>>)
    /\ ls.st_accounts = JSONstringify(DefaultAccounts)

\* C24: after Store.clearAllData, from any state, the store and the storage
\* hold no transaction and no account but the default cash account, and this
\* is still so after the reload that follows.
C24_ResetErases ==
    [][/\ lastOp'.op = "clearAllData" => Erased(data', localStorage')
       /\ (lastOp.op = "clearAllData" /\ lastOp'.op = "init")
             => Erased(data', localStorage')]_vars

\* the same from the states that hold no active recurring rule
C24_ResetErasesNoRules ==
    [][(\A r \in Range(data.recurring) : ~r.active) =>
          /\ lastOp'.op = "clearAllData" => Erased(data', localStorage')
          /\ (lastOp.op = "clearAllData" /\ lastOp'.op = "init")
                => Erased(data', localStorage')]_vars

\* the stores router.renderResults() reads while addRecurring(item) runs from
\* store s: save() renders once after the push and once more at the end of
\* ensureRecurringForMonth
addRecurring_renders(s, item) ==
    LET s1 == addRecurring_saved(s, item)
    IN  <<s1, ensureRecurringForMonth(s1, s1.data.selectedMonth)>>

\* C25: every render of the household month view reads a store in which each
\* active rule has its transaction for selectedMonth: the renders made while
\* addRecurring runs, and the render that ends changeMonth and the page load.
C25_MaterializeBeforeRead ==
    [][/\ lastOp'.op = "addRecurring" =>
             LET item == data'.recurring[Len(data'.recurring)]
                 renders == addRecurring_renders(State, item)
             IN  /\ renders[Len(renders)].data = data'
                 /\ \A i \in 1..Len(renders) : AllMaterialized(renders[i].data)
       /\ lastOp'.op \in {"init", "changeMonth"} => AllMaterialized(data')]_vars

\* the same for the last render of each handler only
C25_MaterializedAtLastRender ==
    [][lastOp'.op \in {"addRecurring", "init", "changeMonth"}
          => AllMaterialized(data')]_vars

(* Month navigation from the last day and from the middle of a month *)

NavClock == { [y |-> 2023, m |-> 2, d |-> 31], [y |-> 2024, m |-> 0, d |-> 31],
              [y |-> 2024, m |-> 4, d |-> 15] }

NavInit == \E today \in NavClock : Boot(today)

NavNext ==
    \/ Reload
    \/ \E delta \in {-1, 1} : changeMonth(delta)
    \/ \E delta \in {-1, 1} : changeDate(delta)
    \/ \E type \in {"recur", "reminder"}, day \in RecurDays :
            submitHomeExpense(type, 150, "Luz", FALSE, day, 2, "parcel")
    \/ \E t \in Range(data.transactions) : deleteTransaction(t.id, TRUE)

NavSpec == NavInit /\ [][NavNext]_vars

\* C27: changeMonth selects the calendar month next to the selected one,
\* whatever the day of month of selectedMonth.
C27_MonthStep ==
    [][lastOp'.op = "changeMonth" =>
          MonthIndex(data'.selectedMonth) - MonthIndex(data.selectedMonth)
              \in {-1, 1}]_vars

\* the same from a selectedMonth whose day of month every month has
C27_MonthStepShortDay ==
    [][(lastOp'.op = "changeMonth" /\ data.selectedMonth.d <= 28) =>
          MonthIndex(data'.selectedMonth) - MonthIndex(data.selectedMonth)
              \in {-1, 1}]_vars

(* Import of a backup written by the earlier version of the store *)

\* getBackupData of the earlier version, whose Store.data has no recurring
EarlierBackupData(today) ==
    [transactions |-> <<>>,
     customCategories |-> DefaultCustomCategories,
     homeCategories |-> DefaultHomeCategories,
     selectedDate |-> today,
     selectedMonth |-> today,
     reportFilter |-> "monthly",
     reportStartDate |-> MakeDate(today.y, today.m, 1),
     reportEndDate |-> MakeDate(today.y, today.m + 1, 0),
     accounts |-> DefaultAccounts,
     recurring |-> undefined]

ImportBlobs(today) ==
    { [parses |-> TRUE, hasTransactions |-> TRUE, hasAccounts |-> TRUE,
       data |-> EarlierBackupData(today)],
      [parses |-> TRUE, hasTransactions |-> TRUE, hasAccounts |-> TRUE,
       data |-> BackupData(today)] }

ImportNext ==
    \/ Reload
    \/ \E delta \in {-1, 1} : changeMonth(delta)
    \/ \E type \in {"single", "recur"} :
            submitHomeExpense(type, 150, "Luz", FALSE, 10, 2, "parcel")
    \/ \E blob \in ImportBlobs(now) : processUpload(blob)
    \/ Store_clearAllData

ImportSpec == PersistInit /\ [][ImportNext]_vars

\* C28: after an import that loadBackupData accepted, the rule list is never
\* left undefined and no later handler (changeMonth, addRecurring, the reset,
\* the init of a reload) throws an error.
C28_ImportUsable == uncaught = "" /\ data.recurring # undefined

\* the same for the backups that carry a rule list: the import leaves a rule
\* list in the store and in the storage, and no handler throws
C28_ImportUsableWithRules ==
    /\ uncaught = ""
    /\ (lastOp.op = "loadBackupData" /\ lastOp.ok) =>
          /\ data.recurring # undefined
          /\ localStorage.st_recurring = JSONstringify(data.recurring)

(* The materializer on a rule list that holds an inactive rule *)

\* a backup whose rule list holds an active and an inactive rule, neither
\* materialized
RuleBackupData(today) ==
    [BackupData(today) EXCEPT
        !.selectedMonth = today,
        !.recurring = << [id |-> BlobRuleId, category |-> "Luz", amount |-> 150,
                          day |-> 30, type |-> "fixed", active |-> TRUE],
                         [id |-> BlobRuleId + 1, category |-> "Agua", amount |-> 70,
                          day |-> 5, type |-> "fixed", active |-> FALSE] >>]

RuleBlobs(today) ==
    { [parses |-> TRUE, hasTransactions |-> TRUE, hasAccounts |-> TRUE,
       data |-> RuleBackupData(today)] }

RuleNext ==
    \/ Reload
    \/ \E delta \in {-1, 1} : changeMonth(delta)
    \/ \E type \in {"recur", "reminder"} :
            submitHomeExpense(type, 150, "Luz", FALSE, 10, 2, "parcel")
    \/ \E t \in Range(data.transactions) : deleteTransaction(t.id, TRUE)
    \/ \E blob \in RuleBlobs(now) : processUpload(blob)

RuleSpec == PersistInit /\ [][RuleNext]_vars

\* the positions of the active rules without a transaction dated in target
RulesMissing(d, target) ==
    { k \in 1..Len(d.recurring) :
        /\ d.recurring[k].active
        /\ OfRuleInMonth(d.transactions, d.recurring[k].id, target) = {} }

\* C29: from every state and for every target month, ensureRecurringForMonth
\* keeps the transactions it finds, in place and unchanged, changes nothing
\* else of Store.data, and appends one transaction for each active rule that
\* had none in the target month and none for an inactive rule.
C29_OnlyAppends ==
    \A target \in TargetMonths :
        LET after == ensureRecurringForMonth(State, target).data
            n == Len(data.transactions)
        IN  /\ Len(after.transactions) = n + Cardinality(RulesMissing(data, target))
            /\ SubSeq(after.transactions, 1, n) = data.transactions
            /\ [after EXCEPT !.transactions = data.transactions] = data
            /\ \A i \in (n + 1)..Len(after.transactions) :
                  /\ after.transactions[i].recurringId
                        \in { r.id : r \in ActiveRules(data) }
                  /\ isSameMonth(after.transactions[i].date, target)

\* changeMonth has just materialized the active rule of a list that holds
\* an inactive rule, which has no transaction
C29_Witness ==
    /\ lastOp.op = "changeMonth"
    /\ \E r \in Range(data.recurring) :
          /\ ~r.active
          /\ \A t \in Range(data.transactions) : t.recurringId # r.id
    /\ \E r \in ActiveRules(data) :
          /\ OfRuleInMonth(data.transactions, r.id, data.selectedMonth) # {}
          /\ <<r.id, data.selectedMonth.y, data.selectedMonth.m>> \in DOMAIN matCount

(* The confirmation of an income that nears or passes the monthly limits *)

\* parseFloat of inp-amount: 6074 + 1 is 90% of 6750; 6750 and 8100 are the
\* two limits; 1 + 1 stays below all of them
GuardIncomes == {1, 6074, 6750, 8100}

GuardNext ==
    \/ changeDate(-1)
    \/ createAccount(0)
    \/ \E amount \in GuardIncomes, accountId \in AccountOptions \ {CashId},
          confirm \in BOOLEAN :
            submitIncome(amount, accountId, confirm)

GuardSpec == PersistInit /\ [][GuardNext]_vars

\* C30: submitIncome of an amount on a regulated account, with the answer the
\* user gives to confirm(): when the income of the current month plus the
\* amount is below 90% of 6750 the income is added whatever the answer; when
\* it is at least 90% of 6750 (so also above 6750 or above 8100) it is added
\* if the user confirms and the store is unchanged if the user declines.
C30_LimitGuard ==
    [][\A amount \in GuardIncomes, a \in Range(data.accounts), confirm \in BOOLEAN :
          (a.type = "mei" /\ submitIncome(amount, a.id, confirm)) =>
             LET projected == getAccountMonthlyStatus(data, a.id, now).total + amount
                 n == Len(data.transactions)
             IN  IF projected * 10 >= 6750 * 9 /\ ~confirm
                 THEN data' = data /\ localStorage' = localStorage
                 ELSE /\ Len(data'.transactions) = n + 1
                      /\ SubSeq(data'.transactions, 1, n) = data.transactions
                      /\ data'.transactions[n + 1].type = "income"
                      /\ data'.transactions[n + 1].amount = amount
                      /\ data'.transactions[n + 1].accountId = a.id]_vars

\* the user declined an income on a regulated account whose income of the
\* month is one below 90% of 6750
C30_Witness ==
    /\ lastOp.op = "submitIncome" /\ ~lastOp.ok
    /\ \E a \in Range(data.accounts) :
          /\ a.type = "mei"
          /\ getAccountMonthlyStatus(data, a.id, now).total = 6074

====
